---- MODULE Spec2Model ----
(***************************************************************************)
(* Verification model of the Personal-AI-Employee pipeline:                *)
(*   - the polling watchers and their idempotency ledger                   *)
(*     (Watchers/base_watcher.py, Watchers/gmail_watcher.py, ...),         *)
(*   - the Approved/ -> Done/ executors (Skills/social_orchestrator.py,    *)
(*     Skills/social_media_poster.py, Watchers/file_watcher.py),           *)
(*   - the MCP tools that draft, post and send                             *)
(*     (mcp_servers/email_server.py, twitter_server.py, facebook_server.py)*)
(***************************************************************************)
EXTENDS Integers, Sequences, FiniteSets, TLC

(***************************************************************************)
(* Bounds of the model.                                                    *)
(***************************************************************************)
\* number of distinct source-native event ids the external source can show
NumIds == 2
\* number of process crashes / restarts of the watcher that are explored
MaxRestarts == 1
\* largest --max-iter given to ralph_loop
MaxIter == 3
\* number of files placed in Approved/ over time, and the days and seconds
\* of the clock that names the files in Done/
MaxPlaced == 3
MaxDays == 2
MaxSecs == 2
\* number of actions logged per audit log
MaxLogged == 3
\* length of the captions given to the draft tools
MaxCaption == 3
\* number of runs of social_media_poster.py
MaxRuns == 4
\* number of poll cycles of the LinkedIn watcher
MaxCycles == 2
\* number of starts of watcher processes
MaxStarts == 2
\* number of starts of a process that watches Approved/
MaxLaunches == 2
\* dispatches of one path by a handler that the model follows
MaxDispatches == 2
\* mails sent on one approval file that the model follows
MaxSends == 2
Ids == 1..NumIds

(***************************************************************************)
(* State.                                                                  *)
(***************************************************************************)
VARIABLES
    \* ---- watcher (BaseWatcher.run + GmailWatcher) ----
    wpc,            \* position of the watcher inside run(): idle/loop/fetched/written
    items,          \* list returned by check_for_updates, not yet processed
    cur,            \* the item create_action_file is working on (0 = none)
    processed_ids,  \* self.processed_ids, the in-memory ledger
    ledgerFile,     \* PROCESSED_FILE on disk: Missing or a JSON array of ids
    needs_action,   \* ids that have a task file EMAIL_<id>.md in Needs_Action/
    \* ---- history of the watcher (observation only) ----
    writes,         \* writes[id]: completed filepath.write_text calls for id
    written,        \* ids whose task file write has completed at least once
    midCrashes,     \* midCrashes[id]: crashes that lost the ledger entry of a
                    \* written id (before or inside _save_processed)
    restarts,       \* number of restarts so far
    refiltered,     \* ids dropped by check_for_updates after a restart
    checkOutcome,   \* how the last check_for_updates ended: "returned" or "raised"
    shown,          \* ids listed by the source in the poll that has just returned
    createFailed,   \* the last create_action_file that raised: its id and where,
                    \* "early" (before the ledger step) or "save" (_save_processed)
    partial,        \* ids whose task file in Needs_Action/ is cut short
    \* ---- staging directories and the executors ----
    loc,            \* loc[f]: directory that holds task file f (or "absent")
    content,        \* content[f]: front-matter of f as written by its author
    events,         \* events[e]: on_created events of Approved/ not yet handled by e
    seen,           \* seen[e]: the _seen set of e's Approved-folder handler
    ex,             \* ex[e]: position and locals of executor e inside process_file
    poster,         \* social_media_poster.py: position inside process_approved_file
    \* ---- history of the executors (observation only) ----
    humanApproved,  \* files a human moved into Approved/
    tries,          \* tries[f][who]: how who's last run on Approved/f ended: renamed
                    \* into Done/ ("moved"), rename failed ("notfound"), or retries
                    \* exhausted and the file left in place ("left")
    doneAfter,      \* doneAfter[f]: outcome of the dispatch that moved f to Done/
    ungated,        \* operations that posted or sent for no human-approved file
    \* ---- Ralph/ralph_loop.py ----
    rpc,            \* position of ralph_loop: idle / loop / returned
    rdir,           \* rdir[t]: where task file t is: "needs", "done" or "elsewhere"
    max_iterations, \* argument of ralph_loop
    iteration,      \* loop variable of ralph_loop
    done_before,    \* snapshot of Done/ taken before the loop
    needs_before,   \* snapshot of Needs_Action/ taken before the loop
    rresult,        \* return value of ralph_loop: "none", "True", "False"
    \* ---- history of ralph_loop (observation only) ----
    invocations,    \* calls of run_claude in this run
    checks,         \* calls of check_completion in this run
    last,           \* exit code, marker and completion rule of the last iteration
    \* ---- names in Done/ ----
    dApproved,      \* dApproved[n]: the file named n in Approved/ (0 = none)
    dDone,          \* Done/: records [dest, file] of destination name and file
    dClock,         \* datetime.now(): <<day, second of the day>>
    dPlaced,        \* number of files placed in Approved/ so far
    dMoved,         \* history: files whose rename into Done/ succeeded
    dSends,         \* history: dSends[v], the mails send_email has sent on
                    \* the approval file v
    \* ---- daily audit logs of the MCP servers ----
    logFile,        \* logFile[a]: content of the day's <date>_<a>_actions.json
    logged,         \* history: logged[a], the records written by _log_action
    \* ---- a draft and its way back through the parser ----
    given,          \* caption passed to social_draft_post / twitter_draft_post
    draftKind,      \* the draft's tool and platform: "twitter" for
                    \* twitter_draft_post, else the platform argument of
                    \* social_draft_post ("none": no draft yet)
    draftText,      \* caption as it stands in the front-matter of the file
    parsed,         \* caption returned by parse_spec, "error" where it raises
    \* ---- social_media_poster.py on posts for platform "both" ----
    bLoc,           \* bLoc[f]: "approved" or "done"
    fbPosts,        \* fbPosts[f]: posts published on the Facebook page for f
    igPosts,        \* igPosts[f]: posts published on Instagram for f
    bResult,        \* bResult[f]: what process_approved_file returned last
    bRuns,          \* runs of the poster so far
    batch,          \* social_files of the running process_all_approved, the
                    \* part its for loop has not yet reached
    skipped,        \* history: files of a batch that its run never reached
    \* ---- LinkedInWatcher.check_for_updates and _wait_for_login ----
    lpc,            \* position: idle / waiting / returned
    elapsed,        \* local variable of _wait_for_login, in seconds
    polls,          \* reads of page.url made by this _wait_for_login
    lresult,        \* how check_for_updates ended: "scanned" (the scan ran and
                    \* its list was returned), "empty" ([] without a scan),
                    \* "raised"
    lcycles,        \* poll cycles started so far
    \* ---- the four watchers and the files they write ----
    running,        \* the watcher process that is alive ("none": no one)
    memIds,         \* its self.processed_ids
    ledgers,        \* ledgers[w]: PROCESSED_FILE of watcher w: whether it
                    \* exists, and the ids of its JSON array
    stage,          \* stage[d]: the task files in directory d of the vault,
                    \* records of a file name and the source event it describes
    today,          \* datetime.now(), the date
    starts,         \* watcher processes started so far
    \* ---- history of the watchers' file writes (observation only) ----
    touched,        \* places where watcher code created or wrote a file
    actor,          \* who took the last step: "watcher" or "other"
    foundCorrupt,   \* the last _load_processed ended in its except branch
    loadLog,        \* levels of the log records written by the last start
    destroyed,      \* events whose task file in Needs_Action/ was overwritten
                    \* by the task of another event
    \* ---- watch mode: social_orchestrator.main and the handlers of Approved/ ----
    opc,            \* the process: "stopped", "scan" (main works through the
                    \* files it found at startup), "watch" (observer started)
    oKind,          \* which program it is: "orchestrator" or "file_watcher"
    oDry,           \* args.dry_run
    existing,       \* main's list `existing`, the part not yet processed
    oEvents,        \* on_created events the observer has not yet delivered
    oSeen,          \* self._seen of the handler
    oLoc,           \* oLoc[f]: "pending", "approved" or "done"
    launches,       \* processes started so far
    \* ---- history of watch mode (observation only) ----
    handled,        \* handled[f]: dispatches of f by the handler of this process
    waiting,        \* files put into Approved/ while the process runs and not
                    \* dispatched since
    reported        \* reported[f]: what process_file returned for f since f
                    \* was last put into Approved/

wvars == <<wpc, items, cur, processed_ids, ledgerFile, needs_action,
           writes, written, midCrashes, restarts, refiltered, checkOutcome,
           shown, createFailed, partial>>

xvars == <<loc, content, events, seen, ex, poster,
           humanApproved, tries, doneAfter, ungated>>

\* what the actions of one component leave alone: the state of the others
rvars == <<rpc, rdir, max_iterations, iteration, done_before, needs_before,
           rresult, invocations, checks, last>>

dvars == <<dApproved, dDone, dClock, dPlaced, dMoved, dSends>>

lvars == <<logFile, logged>>

cvars == <<given, draftKind, draftText, parsed>>

bvars == <<bLoc, fbPosts, igPosts, bResult, bRuns, batch, skipped>>

ivars == <<lpc, elapsed, polls, lresult, lcycles>>

gvars == <<running, memIds, ledgers, stage, today, starts, touched, actor, foundCorrupt, loadLog, destroyed>>

ovars == <<opc, oKind, oDry, existing, oEvents, oSeen, oLoc, launches, handled, waiting, reported>>

notW == <<xvars, rvars, dvars, lvars, cvars, bvars, ivars, gvars, ovars>>

notX == <<wvars, rvars, dvars, lvars, cvars, bvars, ivars, gvars, ovars>>

notR == <<wvars, xvars, dvars, lvars, cvars, bvars, ivars, gvars, ovars>>

notD == <<wvars, xvars, rvars, lvars, cvars, bvars, ivars, gvars, ovars>>

notL == <<wvars, xvars, rvars, dvars, cvars, bvars, ivars, gvars, ovars>>

notC == <<wvars, xvars, rvars, dvars, lvars, bvars, ivars, gvars, ovars>>

notB == <<wvars, xvars, rvars, dvars, lvars, cvars, ivars, gvars, ovars>>

notI == <<wvars, xvars, rvars, dvars, lvars, cvars, bvars, gvars, ovars>>

notG == <<wvars, xvars, rvars, dvars, lvars, cvars, bvars, ivars, ovars>>

notO == <<wvars, xvars, rvars, dvars, lvars, cvars, bvars, ivars, gvars>>

vars == <<wpc, items, cur, processed_ids, ledgerFile, needs_action,
          writes, written, midCrashes, restarts, refiltered, checkOutcome,
          shown, createFailed, partial,
          loc, content, events, seen, ex, poster,
          humanApproved, tries, doneAfter, ungated,
          rpc, rdir, max_iterations, iteration, done_before, needs_before,
          rresult, invocations, checks, last,
          dApproved, dDone, dClock, dPlaced, dMoved, dSends, logFile, logged,
          given, draftKind, draftText, parsed,
          bLoc, fbPosts, igPosts, bResult, bRuns, batch, skipped,
          lpc, elapsed, polls, lresult, lcycles,
          running, memIds, ledgers, stage, today, starts, touched, actor, foundCorrupt, loadLog, destroyed,
          opc, oKind, oDry, existing, oEvents, oSeen, oLoc, launches, handled, waiting, reported>>

(***************************************************************************)
(* Helpers on sequences and sets.                                          *)
(***************************************************************************)
Range(s) == {s[i] : i \in DOMAIN s}

RECURSIVE SortedSeq(_)
\* a set of integers as the ascending list of its elements
SortedSeq(S) ==
    IF S = {} THEN <<>>
    ELSE LET m == CHOOSE x \in S : \A y \in S : x <= y
         IN  <<m>> \o SortedSeq(S \ {m})

(***************************************************************************)
(* Idempotency ledger: GmailWatcher._load_processed / _save_processed.     *)
(***************************************************************************)
Missing == "missing"

\* a ledger file that json.loads rejects: empty or cut short
Corrupt == "corrupt"

\* json.dumps(list(self.processed_ids)): the set becomes a JSON array.  The
\* order of list(set) is unspecified; the array is kept in a canonical order
\* because _load_processed only looks at the elements.
save_processed(ids) == SortedSeq(ids)

\* set(json.loads(PROCESSED_FILE.read_text())) if the file exists, else
\* set(); an exception of read_text or json.loads also gives set()
load_processed(file) ==
    IF file = Missing \/ file = Corrupt THEN {} ELSE Range(file)

\* _load_processed: `except (json.JSONDecodeError, Exception)` lets no
\* exception of the load reach __init__
LoadRaises_uncaught(file) == file = Corrupt

LoadRaises(file) == FALSE

(***************************************************************************)
(* GmailWatcher.check_for_updates: the messages of the source that are not *)
(* in processed_ids, in the order of the source.                           *)
(***************************************************************************)
NewMessages_unfiltered(messages, processed) == messages

NewMessages(messages, processed) == SelectSeq(messages, LAMBDA m : m \notin processed)

\* run(): `except Exception` around the body of the cycle logs "Error in
\* check cycle" and falls through to time.sleep
AfterException_uncaught == "stopped"

AfterException == "loop"

\* One poll.  The source shows any set of its messages (the list call of the
\* API returns each id once); a failing API call is caught and yields [].
\* Before the try block an expired token is refreshed: creds.refresh raises
\* out of check_for_updates, and run() logs "Error in check cycle".
check_for_updates ==
    /\ wpc = "idle"
    /\ \E visible \in SUBSET Ids, apiOk \in BOOLEAN, refreshed \in BOOLEAN :
          IF ~refreshed
            THEN /\ apiOk /\ visible = {}
                 /\ checkOutcome' = "raised"
                 /\ wpc' = AfterException
                 /\ items' = <<>>
                 /\ shown' = {}
                 /\ UNCHANGED refiltered
            ELSE LET messages == IF apiOk THEN SortedSeq(visible) ELSE <<>>
                 IN  /\ checkOutcome' = "returned"
                     /\ wpc' = "loop"
                     /\ items' = NewMessages(messages, processed_ids)
                     /\ shown' = Range(messages)
                     /\ refiltered' = IF restarts > 0
                                        THEN refiltered \cup (Range(messages) \cap processed_ids)
                                        ELSE refiltered
    /\ UNCHANGED <<cur, processed_ids, ledgerFile, needs_action, writes,
                   written, midCrashes, restarts, createFailed, partial>>
    /\ UNCHANGED notW

\* run(): the for loop is over, time.sleep(check_interval), next cycle
sleep_interval ==
    /\ wpc = "loop"
    /\ items = <<>>
    /\ wpc' = "idle"
    /\ shown' = {}
    /\ UNCHANGED <<items, cur, processed_ids, ledgerFile, needs_action,
                   writes, written, midCrashes, restarts, refiltered,
                   checkOutcome, createFailed, partial>>
    /\ UNCHANGED notW

\* run(): `except Exception` around create_action_file logs the failure and
\* the for loop goes on with the items that are left
Remaining_abort(rest) == <<>>

Remaining(rest) == rest

NoFailure == [id |-> 0, at |-> "none"]

(***************************************************************************)
(* GmailWatcher.create_action_file, in its three durable steps.            *)
(***************************************************************************)
\* a create_action_file that records the id before the file is written
fetch_message_marks_early ==
    /\ wpc = "loop"
    /\ items # <<>>
    /\ cur' = Head(items)
    /\ items' = Tail(items)
    /\ processed_ids' = processed_ids \cup {Head(items)}
    /\ ledgerFile' = save_processed(processed_ids')
    /\ wpc' = "fetched"
    /\ shown' = {}
    /\ UNCHANGED <<needs_action, writes, written, midCrashes, restarts,
                   refiltered, checkOutcome, createFailed, partial>>
    /\ UNCHANGED notW

\* service.users().messages().get(...).execute() and the rendering of the
\* content; an exception here is caught by run(), which goes on with the
\* next item without having touched file or ledger.
fetch_message ==
    /\ wpc = "loop"
    /\ items # <<>>
    /\ \E fetched \in BOOLEAN :
          IF fetched
            THEN /\ cur' = Head(items)
                 /\ wpc' = "fetched"
                 /\ items' = Tail(items)
                 /\ UNCHANGED createFailed
            ELSE /\ cur' = 0
                 /\ wpc' = "loop"
                 /\ items' = Remaining(Tail(items))
                 /\ createFailed' = [id |-> Head(items), at |-> "early"]
    /\ shown' = {}
    /\ UNCHANGED <<processed_ids, ledgerFile, needs_action, writes, written,
                   midCrashes, restarts, refiltered, checkOutcome, partial>>
    /\ UNCHANGED notW

\* filepath.write_text(content): EMAIL_<id>.md now exists in Needs_Action/;
\* an OSError of write_text is caught by run()
write_task_file ==
    /\ wpc = "fetched"
    /\ \E wrote \in BOOLEAN :
          IF wrote
            THEN /\ needs_action' = needs_action \cup {cur}
                 /\ partial' = partial \ {cur}
                 /\ writes' = [writes EXCEPT ![cur] = @ + 1]
                 /\ written' = written \cup {cur}
                 /\ wpc' = "written"
                 /\ UNCHANGED <<items, cur, createFailed>>
            ELSE /\ createFailed' = [id |-> cur, at |-> "early"]
                 /\ cur' = 0
                 /\ wpc' = "loop"
                 /\ items' = Remaining(items)
                 /\ UNCHANGED <<needs_action, partial, writes, written>>
    /\ UNCHANGED <<processed_ids, ledgerFile, midCrashes, restarts,
                   refiltered, checkOutcome, shown>>
    /\ UNCHANGED notW

\* self.processed_ids.add(id); self._save_processed().  An OSError of the
\* ledger write is caught by run(): the id is in the set already.
mark_processed ==
    /\ wpc = "written"
    /\ processed_ids' = processed_ids \cup {cur}
    /\ \E saved \in BOOLEAN :
          IF saved
            THEN /\ ledgerFile' = save_processed(processed_ids')
                 /\ createFailed' = IF createFailed.id = cur THEN NoFailure
                                                            ELSE createFailed
                 /\ items' = items
            ELSE /\ ledgerFile' = ledgerFile
                 /\ createFailed' = [id |-> cur, at |-> "save"]
                 /\ items' = Remaining(items)
    /\ cur' = 0
    /\ wpc' = "loop"
    /\ UNCHANGED <<needs_action, writes, written, midCrashes,
                   restarts, refiltered, checkOutcome, shown, partial>>
    /\ UNCHANGED notW

\* KeyboardInterrupt: caught by run() inside the try block (break), or
\* raised out of time.sleep; either way the loop is left.  Between
\* write_text and _save_processed it leaves a written file without its
\* ledger entry, as a crash does.
keyboard_interrupt ==
    /\ wpc \notin {"stopped", "interrupted"}
    /\ wpc' = "interrupted"
    /\ items' = <<>>
    /\ cur' = 0
    /\ midCrashes' = IF wpc = "written"
                       THEN [midCrashes EXCEPT ![cur] = @ + 1]
                       ELSE midCrashes
    /\ shown' = {}
    /\ UNCHANGED <<processed_ids, ledgerFile, needs_action, writes, written,
                   restarts, refiltered, checkOutcome, createFailed, partial>>
    /\ UNCHANGED notW

\* The process dies at any point and is started again: __init__ reloads the
\* ledger from disk, everything held in memory is lost.  A process that dies
\* inside write_text leaves the file it was writing cut short: the task file
\* (position "fetched") or the ledger (position "written").
restart_watcher ==
    /\ restarts < MaxRestarts
    /\ restarts' = restarts + 1
    /\ \E torn \in BOOLEAN :
          /\ torn => wpc \in {"fetched", "written"}
          /\ ledgerFile' = IF torn /\ wpc = "written" THEN Corrupt ELSE ledgerFile
          /\ partial' = IF torn /\ wpc = "fetched" THEN partial \cup {cur} ELSE partial
          /\ needs_action' = IF torn /\ wpc = "fetched"
                               THEN needs_action \cup {cur} ELSE needs_action
    /\ processed_ids' = load_processed(ledgerFile')
    /\ LET held == processed_ids \cup (IF wpc = "written" THEN {cur} ELSE {})
       IN  midCrashes' = [id \in Ids |->
                            IF id \in held \ processed_ids'
                              THEN midCrashes[id] + 1 ELSE midCrashes[id]]
    /\ items' = <<>>
    /\ cur' = 0
    /\ wpc' = IF LoadRaises(ledgerFile') THEN "stopped" ELSE "idle"
    /\ shown' = {}
    /\ UNCHANGED <<writes, written, refiltered, checkOutcome, createFailed>>
    /\ UNCHANGED notW

(***************************************************************************)
(* Staging directories and task files.                                     *)
(***************************************************************************)
Files == {"POST_A.md"}

\* executor processes that act on Approved/:
\*   "orchestrator": social_orchestrator.py in watch mode (ApprovedHandler)
\*   "oneshot":      social_orchestrator.py --file <path>, started by
\*                   file_watcher.ApprovedFolderHandler._run_poster or from
\*                   the command line
Execs == {"orchestrator", "oneshot"}

MAX_RETRIES == 3
TweetMax == 280

\* front-matter written by twitter_draft_post (text of at most 280 chars)
TwitterDraft ==
    [type |-> "twitter_post", platform |-> "", captionLen |-> TweetMax, image |-> FALSE]
\* front-matter written by social_draft_post for platform facebook
FacebookDraft ==
    [type |-> "social_post", platform |-> "facebook", captionLen |-> TweetMax + 1, image |-> FALSE]
\* POST_*.md written to Pending_Approval/ by hand or by the assistant: a
\* tweet of 281 characters, and an Instagram post that names no image
OversizeTweet ==
    [type |-> "social_post", platform |-> "twitter", captionLen |-> TweetMax + 1, image |-> FALSE]
InstagramNoImage ==
    [type |-> "social_post", platform |-> "instagram", captionLen |-> TweetMax, image |-> FALSE]
\* approval request written by draft_email
EmailApproval ==
    [type |-> "approval_request", platform |-> "", captionLen |-> 0, image |-> FALSE]
NoContent ==
    [type |-> "", platform |-> "", captionLen |-> 0, image |-> FALSE]

PostContents == {TwitterDraft, FacebookDraft, OversizeTweet, InstagramNoImage}

\* social_orchestrator.parse_spec: the platform the file is dispatched to,
\* or "error" where parse_spec raises ValueError
parse_spec(c) ==
    LET platform == IF c.type = "twitter_post" THEN "twitter"
                    ELSE IF c.type = "social_post" THEN c.platform
                    ELSE "error"
    IN  IF platform \notin {"linkedin", "facebook", "instagram", "twitter"} THEN "error"
        ELSE IF c.captionLen = 0 THEN "error"
        ELSE platform

\* the pre-screen of the Approved-folder handlers:
\* "type: social_post" in content or "type: twitter_post" in content
IsPostFile(c) == c.type \in {"social_post", "twitter_post"}

\* The checks a platform handler makes before it touches the page:
\* post_twitter raises for len(text) > 280, post_instagram for a missing image
HandlerAccepts(c) ==
    CASE parse_spec(c) = "twitter"   -> c.captionLen <= TweetMax
      [] parse_spec(c) = "instagram" -> c.image
      [] OTHER                       -> TRUE

\* execute_post: `for attempt in range(1, MAX_RETRIES + 1)` goes on after a
\* failed attempt while attempt < MAX_RETRIES
MoreAttempts_offByOne(attempt) == attempt <= MAX_RETRIES

MoreAttempts(attempt) == attempt < MAX_RETRIES

\* execute_post's return value for the way the dispatch ended
Returned_any(outcome) == outcome # "none"

Returned(outcome) == outcome \in {"success", "dry_run"}

\* process_file: `if success and not dry_run:` guards the rename into Done/
ShouldMove_always(success, dry_run) == ~dry_run

ShouldMove(success, dry_run) == success /\ ~dry_run

\* Path.exists() / Path.rename() on Approved/<f>
InDir_anywhere(f, dir) == loc[f] # "absent"

InDir(f, dir) == loc[f] = dir

IdleExec ==
    [pc |-> "idle", file |-> "", dir |-> "", via |-> "", dry |-> FALSE,
     attempt |-> 0, calls |-> 0, launchFails |-> 0, outcome |-> "none",
     shots |-> {}, session |-> TRUE]

IdlePoster == [pc |-> "idle", file |-> "", dry |-> FALSE, posts |-> 0]

\* The except branch of execute_post: `if page: _screenshot(page,
\* f"fail_{attempt}_{platform}", filepath)`.  shots holds the calls of
\* _screenshot made by one dispatch, each named by the attempt number of its
\* tag (the platform is the same throughout a dispatch).
Evidence_untagged(x, page) ==
    IF page THEN [x EXCEPT !.shots = @ \cup {1}] ELSE x

Evidence(x, page) ==
    IF page THEN [x EXCEPT !.shots = @ \cup {x.attempt}] ELSE x

\* history: op has just posted or sent on behalf of file f
Performed(op, f) == IF f \in humanApproved THEN ungated ELSE ungated \cup {op}

NoTries == [w \in Execs \cup {"poster", "send_email"} |-> "none"]

(***************************************************************************)
(* Authors of task files and the human approval gate.                      *)
(***************************************************************************)
\* social_draft_post / twitter_draft_post, or a POST_*.md written by hand:
\* a new file appears in Pending_Approval/
draft_post(f, c) ==
    /\ loc[f] = "absent"
    /\ loc' = [loc EXCEPT ![f] = "pending"]
    /\ content' = [content EXCEPT ![f] = c]
    /\ UNCHANGED <<events, seen, ex, poster, humanApproved, tries,
                   doneAfter, ungated>>
    /\ UNCHANGED notX

\* the human moves the file from Pending_Approval/ to Approved/; both
\* Approved-folder observers get an on_created event
human_approve(f) ==
    /\ loc[f] = "pending"
    /\ loc' = [loc EXCEPT ![f] = "approved"]
    /\ humanApproved' = humanApproved \cup {f}
    /\ events' = [e \in Execs |-> events[e] \cup {f}]
    /\ UNCHANGED <<content, seen, ex, poster, tries, doneAfter, ungated>>
    /\ UNCHANGED notX

\* the human moves the file from Pending_Approval/ to Rejected/
human_reject(f) ==
    /\ loc[f] = "pending"
    /\ loc' = [loc EXCEPT ![f] = "rejected"]
    /\ UNCHANGED <<content, events, seen, ex, poster, humanApproved, tries,
                   doneAfter, ungated>>
    /\ UNCHANGED notX

(***************************************************************************)
(* social_orchestrator.process_file / execute_post.                        *)
(***************************************************************************)
\* process_file up to the retry loop: parse_spec, the session check and the
\* dry-run return of execute_post
StartDispatch_blocked(e, f, dir, via, dry, session) ==
    LET start == [IdleExec EXCEPT !.file = f, !.dir = dir, !.via = via, !.dry = dry,
                                  !.session = session]
    IN  ex' = [ex EXCEPT ![e] =
                IF parse_spec(content[f]) = "error"
                  THEN [start EXCEPT !.pc = "returned", !.outcome = "parse_error"]
                ELSE IF ~session
                  THEN [start EXCEPT !.pc = "returned", !.outcome = "no_session"]
                ELSE IF dry
                  THEN [start EXCEPT !.pc = "returned", !.outcome = "dry_run"]
                ELSE IF tries[f][e] = "left"
                  THEN [start EXCEPT !.pc = "returned", !.outcome = "exhausted"]
                ELSE [start EXCEPT !.pc = "attempt", !.attempt = 1]]

\* a process_file that enters the retry loop whatever parse_spec said
StartDispatch_parseRetried(e, f, dir, via, dry, session) ==
    LET start == [IdleExec EXCEPT !.file = f, !.dir = dir, !.via = via, !.dry = dry,
                                  !.session = session]
    IN  ex' = [ex EXCEPT ![e] =
                IF ~session
                  THEN [start EXCEPT !.pc = "returned", !.outcome = "no_session"]
                ELSE IF dry
                  THEN [start EXCEPT !.pc = "returned", !.outcome = "dry_run"]
                ELSE [start EXCEPT !.pc = "attempt", !.attempt = 1]]

\* an execute_post without the check of the session directory
StartDispatch_sessionUnchecked(e, f, dir, via, dry, session) ==
    LET start == [IdleExec EXCEPT !.file = f, !.dir = dir, !.via = via, !.dry = dry,
                                  !.session = session]
    IN  ex' = [ex EXCEPT ![e] =
                IF parse_spec(content[f]) = "error"
                  THEN [start EXCEPT !.pc = "returned", !.outcome = "parse_error"]
                ELSE IF dry
                  THEN [start EXCEPT !.pc = "returned", !.outcome = "dry_run"]
                ELSE [start EXCEPT !.pc = "attempt", !.attempt = 1]]

\* an execute_post without its dry-run return
StartDispatch_dryUnchecked(e, f, dir, via, dry, session) ==
    LET start == [IdleExec EXCEPT !.file = f, !.dir = dir, !.via = via, !.dry = dry,
                                  !.session = session]
    IN  ex' = [ex EXCEPT ![e] =
                IF parse_spec(content[f]) = "error"
                  THEN [start EXCEPT !.pc = "returned", !.outcome = "parse_error"]
                ELSE IF ~session
                  THEN [start EXCEPT !.pc = "returned", !.outcome = "no_session"]
                ELSE [start EXCEPT !.pc = "attempt", !.attempt = 1]]

StartDispatch(e, f, dir, via, dry, session) ==
    LET start == [IdleExec EXCEPT !.file = f, !.dir = dir, !.via = via, !.dry = dry,
                                  !.session = session]
    IN  ex' = [ex EXCEPT ![e] =
                IF parse_spec(content[f]) = "error"
                  THEN [start EXCEPT !.pc = "returned", !.outcome = "parse_error"]
                ELSE IF ~session
                  THEN [start EXCEPT !.pc = "returned", !.outcome = "no_session"]
                ELSE IF dry
                  THEN [start EXCEPT !.pc = "returned", !.outcome = "dry_run"]
                ELSE [start EXCEPT !.pc = "attempt", !.attempt = 1]]

\* ApprovedHandler.on_created (watch mode of the orchestrator) and
\* ApprovedFolderHandler.on_created (file_watcher, which runs
\* social_orchestrator.py --file <path> in a subprocess)
on_created(e, f) ==
    /\ ex[e].pc = "idle"
    /\ f \in events[e]
    /\ events' = [events EXCEPT ![e] = @ \ {f}]
    /\ seen' = [seen EXCEPT ![e] = @ \cup {f}]
    /\ IF f \notin seen[e] /\ InDir(f, "approved") /\ IsPostFile(content[f])
         THEN \E dry \in (IF e = "orchestrator" THEN BOOLEAN ELSE {FALSE}),
                 session \in BOOLEAN :
                 StartDispatch(e, f, "approved",
                               IF e = "orchestrator" THEN "ApprovedHandler"
                                                     ELSE "ApprovedFolderHandler",
                               dry, session)
         ELSE UNCHANGED ex
    /\ UNCHANGED <<loc, content, poster, humanApproved, tries, doneAfter,
                   ungated>>
    /\ UNCHANGED notX

\* main(), one-shot mode from the command line: --file names any existing
\* file; main checks filepath.exists() and nothing else
main_one_shot(f, dir) ==
    /\ ex["oneshot"].pc = "idle"
    /\ dir \in {"pending", "approved"}
    /\ loc[f] = dir
    /\ \E dry \in BOOLEAN, session \in BOOLEAN :
          StartDispatch("oneshot", f, dir, "one_shot", dry, session)
    /\ UNCHANGED <<loc, content, events, seen, poster, humanApproved, tries,
                   doneAfter, ungated>>
    /\ UNCHANGED notX

\* execute_post: `handler(page, spec)` came back, `return True` leaves the
\* retry loop
Succeeded_noReturn(x) ==
    [x EXCEPT !.calls = @ + 1, !.outcome = "success",
              !.attempt = IF @ < MAX_RETRIES THEN @ + 1 ELSE @]

Succeeded(x) ==
    [x EXCEPT !.calls = @ + 1, !.pc = "returned", !.outcome = "success"]

\* the message execute_post logs for the way it ended
LogLine(outcome) ==
    CASE outcome = "no_session" -> "No session found for"
      [] outcome = "exhausted"  -> "attempts exhausted"
      [] outcome = "dry_run"    -> "[DRY RUN]"
      [] outcome = "success"    -> "SUCCESS: posted to"
      [] OTHER                  -> ""

\* One iteration of the retry loop of execute_post: launch the browser
\* context, call the handler, and classify the result.
attempt_post(e) ==
    /\ ex[e].pc = "attempt"
    /\ LET x == ex[e]
           f == x.file
           failed(y) == IF MoreAttempts(y.attempt)
                          THEN [y EXCEPT !.attempt = @ + 1]
                          ELSE [y EXCEPT !.pc = "returned", !.outcome = "exhausted"]
       IN  \E launched \in BOOLEAN, handlerOk \in BOOLEAN :
             IF ~launched
               THEN /\ handlerOk
                    /\ ex' = [ex EXCEPT ![e] =
                                failed(Evidence([x EXCEPT !.launchFails = @ + 1], FALSE))]
                    /\ UNCHANGED ungated
               ELSE IF HandlerAccepts(content[f]) /\ handlerOk
                      THEN /\ ex' = [ex EXCEPT ![e] = Succeeded(x)]
                           /\ ungated' = Performed(x.via, f)
                      ELSE /\ ex' = [ex EXCEPT ![e] =
                                       failed(Evidence([x EXCEPT !.calls = @ + 1], TRUE))]
                           /\ UNCHANGED ungated
    /\ UNCHANGED <<loc, content, events, seen, poster, humanApproved, tries,
                   doneAfter>>
    /\ UNCHANGED notX

\* process_file after execute_post has returned: the rename into Done/
finish_process_file(e) ==
    /\ ex[e].pc = "returned"
    /\ LET x == ex[e]
           f == x.file
       IN  IF ShouldMove(Returned(x.outcome), x.dry)
             THEN IF InDir(f, x.dir)
                    THEN /\ loc' = [loc EXCEPT ![f] = "done"]
                         /\ doneAfter' = [doneAfter EXCEPT ![f] = x.outcome]
                         /\ tries' = IF x.dir = "approved"
                                       THEN [tries EXCEPT ![f][e] = "moved"]
                                       ELSE tries
                    ELSE /\ tries' = IF x.dir = "approved"
                                       THEN [tries EXCEPT ![f][e] = "notfound"]
                                       ELSE tries
                         /\ UNCHANGED <<loc, doneAfter>>
             ELSE /\ tries' = IF x.outcome = "exhausted" /\ x.dir = "approved"
                                THEN [tries EXCEPT ![f][e] = "left"]
                                ELSE tries
                  /\ UNCHANGED <<loc, doneAfter>>
    /\ ex' = [ex EXCEPT ![e] = IdleExec]
    /\ UNCHANGED <<content, events, seen, poster, humanApproved, ungated>>
    /\ UNCHANGED notX

(***************************************************************************)
(* social_media_poster.py: process_all_approved / process_approved_file.   *)
(***************************************************************************)
\* social_media_poster.parse_post_spec: the platform, or "error" where it
\* raises ValueError (no caption, platform not facebook/instagram/both)
parse_post_spec(c) ==
    LET platform == IF c.platform = "" THEN "facebook" ELSE c.platform
    IN  IF c.type = "twitter_post" \/ c.captionLen = 0 THEN "error"
        ELSE IF platform \notin {"facebook", "instagram", "both"} THEN "error"
        ELSE platform

\* process_all_approved picks the files of Approved/ that contain
\* "type: social_post"; process_approved_file parses the file and calls
\* execute_post, which posts through the Graph API (no retry; posts counts
\* the calls of the Graph API that published).  A
\* RuntimeError makes process_approved_file return False, any other
\* exception ends the run; in both cases nothing is moved.
poster_execute(f, dry) ==
    /\ poster.pc = "idle"
    /\ InDir(f, "approved")
    /\ content[f].type = "social_post"
    /\ LET platform == parse_post_spec(content[f])
       IN  IF platform = "error"
             THEN UNCHANGED <<poster, ungated>>
           ELSE IF dry
             THEN /\ poster' = [pc |-> "posted", file |-> f, dry |-> TRUE, posts |-> 0]
                  /\ UNCHANGED ungated
           ELSE \E apiOk \in BOOLEAN :
                  IF apiOk /\ (platform = "facebook" \/ content[f].image)
                    THEN /\ poster' = [pc |-> "posted", file |-> f, dry |-> FALSE,
                                         posts |-> 1]
                         /\ ungated' = Performed("process_all_approved", f)
                    ELSE UNCHANGED <<poster, ungated>>
    /\ UNCHANGED <<loc, content, events, seen, ex, humanApproved, tries,
                   doneAfter>>
    /\ UNCHANGED notX

\* process_approved_file after execute_post returned its results:
\* `if not dry_run: filepath.rename(dest)`; the rename is not guarded, a
\* missing source raises FileNotFoundError out of process_approved_file
poster_move ==
    /\ poster.pc = "posted"
    /\ LET f == poster.file
       IN  IF ~poster.dry
             THEN IF InDir(f, "approved")
                    THEN /\ loc' = [loc EXCEPT ![f] = "done"]
                         /\ doneAfter' = [doneAfter EXCEPT ![f] = "success"]
                         /\ tries' = [tries EXCEPT ![f]["poster"] = "moved"]
                    ELSE /\ tries' = [tries EXCEPT ![f]["poster"] = "notfound"]
                         /\ UNCHANGED <<loc, doneAfter>>
             ELSE UNCHANGED <<loc, doneAfter, tries>>
    /\ poster' = IdlePoster
    /\ UNCHANGED <<content, events, seen, ex, humanApproved, ungated>>
    /\ UNCHANGED notX

(***************************************************************************)
(* mcp_servers/email_server.py: draft_email and send_email.                *)
(***************************************************************************)
\* the values of approved_file: none, the bare name of the file, and a
\* relative path that leads from Approved/ to the file in Pending_Approval/
Refs == {"", "NAME", "../Pending_Approval/NAME"}

\* approval_path = APPROVED / approved_file: the directory it resolves to
approval_path(ref) == IF ref = "NAME" THEN "approved" ELSE "pending"

\* send_email: `approval_path.exists()`
ApprovalFound_unchecked(f, ref) == loc[f] \in {"pending", "approved"}

ApprovalFound(f, ref) == loc[f] = approval_path(ref)

\* draft_email: Gmail draft plus an approval request in Pending_Approval/;
\* an exception of the Gmail API leaves no file behind
draft_email(f) ==
    /\ loc[f] = "absent"
    /\ \E apiOk \in BOOLEAN :
          IF apiOk
            THEN /\ loc' = [loc EXCEPT ![f] = "pending"]
                 /\ content' = [content EXCEPT ![f] = EmailApproval]
            ELSE UNCHANGED <<loc, content>>
    /\ UNCHANGED <<events, seen, ex, poster, humanApproved, tries,
                   doneAfter, ungated>>
    /\ UNCHANGED notX

\* send_email(to, subject, body, approved_file = ref) for the file f:
\* without approved_file it returns draft_email(...); blocked when
\* approval_path does not exist; else the message is sent and approval_path
\* renamed to Done/<date>_<approved_file>, which raises FileNotFoundError for
\* an approved_file with directories in it (the file stays where it is).
send_email(f, ref) ==
    IF ref = ""
      THEN draft_email(f)
      ELSE /\ loc[f] # "absent"
           /\ IF ~ApprovalFound(f, ref)
                THEN UNCHANGED <<loc, doneAfter, tries, ungated>>
                ELSE \E sent \in BOOLEAN :
                       IF ~sent
                         THEN UNCHANGED <<loc, doneAfter, tries, ungated>>
                         ELSE IF ref = "NAME"
                           THEN /\ ungated' = Performed("send_email", f)
                                /\ loc' = [loc EXCEPT ![f] = "done"]
                                /\ doneAfter' = [doneAfter EXCEPT ![f] = "success"]
                                /\ tries' = [tries EXCEPT ![f]["send_email"] = "moved"]
                           ELSE /\ ungated' = Performed("send_email_path", f)
                                /\ UNCHANGED <<loc, doneAfter, tries>>
           /\ UNCHANGED <<content, events, seen, ex, poster, humanApproved>>
           /\ UNCHANGED notX

(***************************************************************************)
(* MCP tools that post at once: twitter_post_tweet, twitter_reply_tweet,   *)
(* fb_post_text, fb_post_photo, ig_post_image.                             *)
(***************************************************************************)
DirectTools == {"twitter_post_tweet", "twitter_reply_tweet",
                "fb_post_text", "fb_post_photo", "ig_post_image"}

\* the tool checks credentials and arguments, then calls the platform API;
\* no staging directory is read
direct_post(tool) ==
    /\ tool \in DirectTools
    /\ \E posted \in BOOLEAN :
          IF posted
            THEN ungated' = ungated \cup {"mcp_post_tool"}
            ELSE UNCHANGED ungated
    /\ UNCHANGED <<loc, content, events, seen, ex, poster, humanApproved,
                   tries, doneAfter>>
    /\ UNCHANGED notX

(***************************************************************************)
(* Ralph/ralph_loop.py: the autonomous task loop.                          *)
(***************************************************************************)
\* task files the loop's actor works on
RTasks == {"TASK_1.md", "TASK_2.md"}

\* (stdout, exit code) pairs run_claude can return: the return code of the
\* claude process, or -1 (timeout), -2 (not found), -3 (other) with no output
ExitCodes == {-3, -2, -1, 0, 1}

NoIteration == [exit |-> 0, marker |-> FALSE, rule |-> 0]

\* snapshot_dir(directory)
snapshot_dir(dir) == {t \in RTasks : rdir[t] = dir}

\* check_completion(output, done_before, needs_before): the number of the
\* rule that matched (1 promise, 2 files moved, 3 queue clear), 0 for none
check_completion_filesFirst(marker, done_now, needs_now, doneB, needsB) ==
    IF (done_now \ doneB) # {} /\ needs_now = {} THEN 2
    ELSE IF needsB # {} /\ needs_now = {} THEN 3
    ELSE IF marker THEN 1
    ELSE 0

\* a check_completion without the queue-clear rule
check_completion_noQueueRule(marker, done_now, needs_now, doneB, needsB) ==
    IF marker THEN 1
    ELSE IF (done_now \ doneB) # {} /\ needs_now = {} THEN 2
    ELSE 0

check_completion(marker, done_now, needs_now, doneB, needsB) ==
    IF marker THEN 1
    ELSE IF (done_now \ doneB) # {} /\ needs_now = {} THEN 2
    ELSE IF needsB # {} /\ needs_now = {} THEN 3
    ELSE 0

\* `if exit_code < 0:` stops the loop
Fatal_nonzero(exit_code) == exit_code # 0

Fatal(exit_code) == exit_code < 0

\* `for iteration in range(1, max_iterations + 1)`
InRange_offByOne(i, max) == i <= max + 1

InRange(i, max) == i <= max

\* a watcher (or anyone) puts a task file into Needs_Action/ while the loop
\* is not running
new_task(t) ==
    /\ rpc # "loop"
    /\ rdir[t] # "needs"
    /\ rdir' = [rdir EXCEPT ![t] = "needs"]
    /\ UNCHANGED <<rpc, max_iterations, iteration, done_before, needs_before,
                   rresult, invocations, checks, last>>
    /\ UNCHANGED notR

\* ralph_loop(task, max_iterations) up to the first iteration: the snapshots
ralph_start(max) ==
    /\ rpc # "loop"
    /\ rpc' = "loop"
    /\ max_iterations' = max
    /\ iteration' = 1
    /\ done_before' = snapshot_dir("done")
    /\ needs_before' = snapshot_dir("needs")
    /\ rresult' = "none"
    /\ invocations' = 0
    /\ checks' = 0
    /\ last' = NoIteration
    /\ UNCHANGED rdir
    /\ UNCHANGED notR

\* one iteration of the loop: run_claude, during which the actor moves task
\* files as it likes, then the exit-code test and check_completion
ralph_iterate ==
    /\ rpc = "loop"
    /\ InRange(iteration, max_iterations)
    /\ \E exit_code \in ExitCodes, said \in BOOLEAN,
          moved \in [RTasks -> {"needs", "done", "elsewhere"}] :
          LET marker == said /\ exit_code >= 0
              done_now == {t \in RTasks : moved[t] = "done"}
              needs_now == {t \in RTasks : moved[t] = "needs"}
              rule == check_completion(marker, done_now, needs_now,
                                       done_before, needs_before)
          IN  /\ rdir' = moved
              /\ invocations' = invocations + 1
              /\ IF Fatal(exit_code)
                   THEN /\ rpc' = "returned"
                        /\ rresult' = "False"
                        /\ last' = [exit |-> exit_code, marker |-> marker, rule |-> 0]
                        /\ UNCHANGED <<checks, iteration>>
                   ELSE /\ checks' = checks + 1
                        /\ last' = [exit |-> exit_code, marker |-> marker, rule |-> rule]
                        /\ IF rule # 0
                             THEN /\ rpc' = "returned"
                                  /\ rresult' = "True"
                                  /\ UNCHANGED iteration
                             ELSE /\ iteration' = iteration + 1
                                  /\ UNCHANGED <<rpc, rresult>>
    /\ UNCHANGED <<max_iterations, done_before, needs_before>>
    /\ UNCHANGED notR

\* after the loop: "MAX ITERATIONS REACHED", two more snapshots, return False
ralph_exhausted ==
    /\ rpc = "loop"
    /\ ~InRange(iteration, max_iterations)
    /\ rpc' = "returned"
    /\ rresult' = "False"
    /\ UNCHANGED <<rdir, max_iterations, iteration, done_before, needs_before,
                   invocations, checks, last>>
    /\ UNCHANGED notR

(***************************************************************************)
(* The names given to files renamed into Done/.                            *)
(***************************************************************************)
DNames == {"APPROVAL.md", "POST_X.md"}

Movers == {"process_file", "process_approved_file", "send_email"}

\* the destination in Done/: process_file and process_approved_file prefix
\* the name with %Y%m%d_%H%M%S, send_email with %Y-%m-%d
DoneName(who, n, clock) ==
    IF who = "send_email"
      THEN [fmt |-> "%Y-%m-%d", day |-> clock[1], sec |-> 0, name |-> n]
      ELSE [fmt |-> "%Y%m%d_%H%M%S", day |-> clock[1], sec |-> clock[2], name |-> n]

\* a human moves a new file named n into Approved/
place_approved(n) ==
    /\ dApproved[n] = 0
    /\ dPlaced < MaxPlaced
    /\ dPlaced' = dPlaced + 1
    /\ dApproved' = [dApproved EXCEPT ![n] = dPlaced + 1]
    /\ UNCHANGED <<dDone, dClock, dMoved, dSends>>
    /\ UNCHANGED notD

\* time passes
tick ==
    /\ \/ dClock[2] < MaxSecs /\ dClock' = <<dClock[1], dClock[2] + 1>>
       \/ dClock[1] < MaxDays /\ dClock' = <<dClock[1] + 1, 1>>
    /\ UNCHANGED <<dApproved, dDone, dPlaced, dMoved, dSends>>
    /\ UNCHANGED notD

\* Path.rename(dest) after the external action succeeded (for send_email:
\* after the mail was sent).  Where dest exists, os.rename replaces it on
\* POSIX and raises FileExistsError on Windows (the source then stays in
\* Approved/).  send_email builds dest from approved_file as it was passed:
\* for "./<n>", which names Approved/<n>, dest lies in the directory
\* Done/<date>_. that does not exist, and the rename raises.
rename_to_done(who, n) ==
    /\ who \in Movers
    /\ dApproved[n] # 0
    /\ who = "send_email" => dSends[dApproved[n]] < MaxSends
    /\ dSends' = IF who = "send_email"
                   THEN [dSends EXCEPT ![dApproved[n]] = @ + 1] ELSE dSends
    /\ LET dest == DoneName(who, n, dClock)
           there == {d \in dDone : d.dest = dest}
           entry == [dest |-> dest, file |-> dApproved[n]]
       IN  \E os \in {"posix", "windows"}, approved_file \in {"NAME", "./NAME"} :
             /\ who # "send_email" => approved_file = "NAME"
             /\ IF approved_file = "NAME" /\ (there = {} \/ os = "posix")
                  THEN /\ dDone' = (dDone \ there) \cup {entry}
                       /\ dApproved' = [dApproved EXCEPT ![n] = 0]
                       /\ dMoved' = dMoved \cup {dApproved[n]}
                  ELSE UNCHANGED <<dDone, dApproved, dMoved>>
    /\ UNCHANGED <<dClock, dPlaced>>
    /\ UNCHANGED notD

(***************************************************************************)
(* _log_action of email_server.py and odoo_server.py.                      *)
(***************************************************************************)
Actors == {"email", "odoo"}

\* content of a log file: a JSON array of records, or text that is no JSON
NoLog == [exists |-> FALSE, json |-> TRUE, entries |-> <<>>]

\* `if daily_log.exists(): try: entries = json.loads(...) except: entries = []`
read_entries(file) ==
    IF file.exists /\ file.json THEN file.entries ELSE <<>>

\* _log_action(action, details): read the array, append, write_text the
\* whole array.  write_text truncates the file before it writes: a process
\* that dies in between leaves text that is no JSON.
log_action(a, action) ==
    /\ Len(logged[a]) < MaxLogged
    /\ LET entry == [n |-> Len(logged[a]) + 1, action_type |-> action]
           entries == Append(read_entries(logFile[a]), entry)
       IN  \E completed \in BOOLEAN :
             IF completed
               THEN /\ logFile' = [logFile EXCEPT ![a] =
                                     [exists |-> TRUE, json |-> TRUE, entries |-> entries]]
                    /\ logged' = [logged EXCEPT ![a] = Append(@, entry)]
               ELSE /\ logFile' = [logFile EXCEPT ![a] =
                                     [exists |-> TRUE, json |-> FALSE, entries |-> <<>>]]
                    /\ UNCHANGED logged
    /\ UNCHANGED notL

(***************************************************************************)
(* The caption of a draft: written by social_draft_post and                *)
(* twitter_draft_post, read back by social_orchestrator.parse_spec.        *)
(***************************************************************************)
\* the characters a caption is made of: a letter, a space, a double quote,
\* a single quote, and the front-matter delimiter "---"
Chars == {"a", " ", "\"", "'", "---"}

Captions == UNION {[1..n -> Chars] : n \in 0..MaxCaption}

NoText == <<"none">>

ParseError == <<"error">>

RECURSIVE strip(_)
\* str.strip()
strip(c) ==
    IF c = <<>> THEN c
    ELSE IF Head(c) = " " THEN strip(Tail(c))
    ELSE IF c[Len(c)] = " " THEN strip(SubSeq(c, 1, Len(c) - 1))
    ELSE c

\* the front-matter line `caption: "{caption.replace('"', "'")}"`
front_matter_caption(c) ==
    [i \in 1..Len(c) |-> IF c[i] = "\"" THEN "'" ELSE c[i]]

\* parse_spec on the file: text.split("---", 2) ends the front-matter at the
\* first "---" after the opening one; a caption cut there is an unclosed
\* quoted scalar, which yaml.safe_load rejects.  Else the scalar is read
\* and stripped, and an empty caption is refused.
parse_caption(text) ==
    IF \E i \in 1..Len(text) : text[i] = "---" THEN ParseError
    ELSE IF strip(text) = <<>> THEN ParseError
    ELSE strip(text)

\* twitter_draft_post, and social_draft_post with each platform it accepts
\* (an image_url is passed where the tool asks for one)
DraftKinds == {"twitter", "facebook", "instagram", "both"}

\* the type and platform lines of the front-matter the tool writes
DraftContent(kind, len) ==
    IF kind = "twitter"
      THEN [type |-> "twitter_post", platform |-> "", captionLen |-> len, image |-> FALSE]
      ELSE [type |-> "social_post", platform |-> kind, captionLen |-> len,
            image |-> kind # "facebook"]

\* social_draft_post(platform, caption) / twitter_draft_post(text): refuses
\* an empty caption, else writes the file into Pending_Approval/
write_draft(kind, c) ==
    /\ draftText = NoText
    /\ c \in Captions
    /\ given' = c
    /\ draftKind' = kind
    /\ draftText' = IF strip(c) = <<>> THEN NoText ELSE front_matter_caption(c)
    /\ UNCHANGED parsed
    /\ UNCHANGED notC

\* process_file reads the approved draft: parse_spec fails on the YAML, on
\* the platform or on the caption, or returns the caption
parse_draft ==
    /\ draftText # NoText
    /\ parsed = NoText
    /\ LET c == parse_caption(draftText)
       IN  parsed' = IF c = ParseError THEN ParseError
                     ELSE IF parse_spec(DraftContent(draftKind, Len(c))) = "error"
                       THEN ParseError
                     ELSE c
    /\ UNCHANGED <<given, draftKind, draftText>>
    /\ UNCHANGED notC

(***************************************************************************)
(* social_media_poster.py on a post for platform "both": execute_post      *)
(* publishes on Facebook, then on Instagram.                               *)
(***************************************************************************)
\* two approved posts with `platform: both`: one names an image_url, the
\* other does not
BFiles == {"BOTH_IMAGE.md", "BOTH_TEXT.md"}

HasImage(f) == f = "BOTH_IMAGE.md"

\* what one Graph API call does: it succeeds, the reply carries an error
\* (RuntimeError of _graph_post), or raise_for_status raises an HTTPError
GraphReplies == {"ok", "api_error", "http_error"}

\* process_approved_file: `except RuntimeError` returns False; any other
\* exception leaves process_approved_file and ends the run
Outcome(reply) == IF reply = "http_error" THEN "raised" ELSE "False"

\* process_approved_file(f) of one run: execute_post calls
\* post_facebook_photo / post_facebook_text, then post_instagram_image,
\* which raises RuntimeError without an image_url; only a full success
\* renames the file into Done/
process_approved_file(f) ==
    \E fb \in GraphReplies, ig \in GraphReplies :
          IF fb # "ok"
            THEN /\ ig = "ok"
                 /\ bResult' = [bResult EXCEPT ![f] = Outcome(fb)]
                 /\ UNCHANGED <<fbPosts, igPosts, bLoc>>
            ELSE /\ fbPosts' = [fbPosts EXCEPT ![f] = @ + 1]
                 /\ IF ~HasImage(f)
                      THEN /\ ig = "ok"
                           /\ bResult' = [bResult EXCEPT ![f] = "False"]
                           /\ UNCHANGED <<igPosts, bLoc>>
                    ELSE IF ig = "ok"
                      THEN /\ igPosts' = [igPosts EXCEPT ![f] = @ + 1]
                           /\ bLoc' = [bLoc EXCEPT ![f] = "done"]
                           /\ bResult' = [bResult EXCEPT ![f] = "True"]
                      ELSE /\ bResult' = [bResult EXCEPT ![f] = Outcome(ig)]
                           /\ UNCHANGED <<igPosts, bLoc>>

\* social_media_poster.py --file <f>
post_both(f) ==
    /\ bRuns < MaxRuns
    /\ bLoc[f] = "approved"
    /\ bRuns' = bRuns + 1
    /\ process_approved_file(f)
    /\ UNCHANGED <<batch, skipped>>
    /\ UNCHANGED notB

\* process_all_approved up to its for loop: the social_post files of
\* Approved/ are listed
start_batch ==
    /\ batch = {}
    /\ bRuns < MaxRuns
    /\ bRuns' = bRuns + 1
    /\ batch' = {f \in BFiles : bLoc[f] = "approved"}
    /\ UNCHANGED <<bLoc, fbPosts, igPosts, bResult, skipped>>
    /\ UNCHANGED notB

\* one turn of `for f in social_files:`.  A file that is gone makes
\* process_approved_file return False at parse_post_spec; an exception that
\* process_approved_file lets through ends process_all_approved.
batch_next ==
    /\ \E f \in batch :
          IF bLoc[f] # "approved"
            THEN /\ bResult' = [bResult EXCEPT ![f] = "False"]
                 /\ batch' = batch \ {f}
                 /\ UNCHANGED <<fbPosts, igPosts, bLoc, skipped>>
            ELSE /\ process_approved_file(f)
                 /\ IF bResult'[f] = "raised"
                      THEN /\ batch' = {}
                           /\ skipped' = skipped \cup (batch \ {f})
                      ELSE /\ batch' = batch \ {f}
                           /\ UNCHANGED skipped
    /\ UNCHANGED bRuns
    /\ UNCHANGED notB

(***************************************************************************)
(* Watchers/linkedin_watcher.py: check_for_updates and _wait_for_login.    *)
(***************************************************************************)
LOGIN_WAIT_TIMEOUT == 120
poll_interval == 3

\* `while elapsed < LOGIN_WAIT_TIMEOUT:`
InTime_inclusive(e) == e <= LOGIN_WAIT_TIMEOUT

InTime(e) == e < LOGIN_WAIT_TIMEOUT

\* check_for_updates up to the login test: _ensure_browser (outside the
\* try block: a failed launch raises into run()), page.goto, _is_logged_in.
\* Logged in, the scan runs; an exception inside the try block gives [].
linkedin_check ==
    /\ lpc = "idle"
    /\ lcycles < MaxCycles
    /\ lcycles' = lcycles + 1
    /\ elapsed' = 0
    /\ polls' = 0
    /\ \E browser \in BOOLEAN, loaded \in BOOLEAN, logged_in \in BOOLEAN,
          scanned \in BOOLEAN :
          IF ~browser
            THEN /\ loaded /\ logged_in /\ scanned
                 /\ lpc' = "returned" /\ lresult' = "raised"
          ELSE IF ~loaded
            THEN /\ logged_in /\ scanned
                 /\ lpc' = "returned" /\ lresult' = "empty"
          ELSE IF logged_in
            THEN /\ lpc' = "returned"
                 /\ lresult' = IF scanned THEN "scanned" ELSE "empty"
          ELSE /\ scanned
               /\ lpc' = "waiting" /\ lresult' = "none"
    /\ UNCHANGED notI

\* one turn of the while loop of _wait_for_login: page.url raises (browser
\* closed: return False), shows a logged-in path (return True, and
\* check_for_updates goes on to the scan), or the loop waits poll_interval
\* seconds; a wait_for_timeout that raises is caught by check_for_updates
wait_for_login_poll ==
    /\ lpc = "waiting"
    /\ InTime(elapsed)
    /\ polls' = polls + 1
    /\ \E page \in {"closed", "logged_in", "login", "closed_in_wait"},
          scanned \in BOOLEAN :
          CASE page = "closed" ->
                 /\ scanned
                 /\ lpc' = "returned" /\ lresult' = "empty"
                 /\ UNCHANGED elapsed
            [] page = "logged_in" ->
                 /\ lpc' = "returned"
                 /\ lresult' = IF scanned THEN "scanned" ELSE "empty"
                 /\ UNCHANGED elapsed
            [] page = "login" ->
                 /\ scanned
                 /\ elapsed' = elapsed + poll_interval
                 /\ UNCHANGED <<lpc, lresult>>
            [] page = "closed_in_wait" ->
                 /\ scanned
                 /\ lpc' = "returned" /\ lresult' = "empty"
                 /\ UNCHANGED elapsed
    /\ UNCHANGED lcycles
    /\ UNCHANGED notI

\* the while loop is over: "Login wait timed out", return False, and
\* check_for_updates returns []
wait_for_login_timeout ==
    /\ lpc = "waiting"
    /\ ~InTime(elapsed)
    /\ lpc' = "returned"
    /\ lresult' = "empty"
    /\ UNCHANGED <<elapsed, polls, lcycles>>
    /\ UNCHANGED notI

\* run(): the for loop over the returned list, time.sleep(check_interval),
\* and the next cycle of the same process
linkedin_sleep ==
    /\ lpc = "returned"
    /\ lpc' = "idle"
    /\ UNCHANGED <<elapsed, polls, lresult, lcycles>>
    /\ UNCHANGED notI

(***************************************************************************)
(* The four BaseWatcher subclasses and the files they write: GmailWatcher, *)
(* TwitterWatcher, FacebookWatcher, LinkedInWatcher.                       *)
(***************************************************************************)
WatcherKinds == {"gmail", "twitter", "facebook", "linkedin"}

StageDirs == {"Needs_Action", "Pending_Approval", "Approved", "Rejected", "Done"}

Days == {"d1", "d2"}

\* Source events.  A Facebook conversation id is given as its first 12
\* characters and the rest; the id of a LinkedIn message is
\* f"{sender}_{hash(preview)}", given as the sender and the preview.
SourceEvents ==
    {[w |-> "gmail", id |-> <<"m1", "">>, sender |-> "Ann B"],
     [w |-> "twitter", id |-> <<"1", "">>, sender |-> "Bob"],
     [w |-> "facebook", id |-> <<"t_1000000000", "11111">>, sender |-> "Ann B"],
     [w |-> "facebook", id |-> <<"t_1000000000", "22222">>, sender |-> "Ann B"],
     [w |-> "linkedin", id |-> <<"Ann B", "offer">>, sender |-> "Ann B"],
     [w |-> "linkedin", id |-> <<"Ann B", "invoice">>, sender |-> "Ann B"]}

\* BaseWatcher.__init__: self.needs_action = self.vault_path / "Needs_Action"
TaskArea_approved == "Approved"

TaskArea == "Needs_Action"

\* sender_name.replace(" ", "_") of FacebookWatcher and _sanitize of
\* LinkedInWatcher, on the names of the model
safe_name(sender) == IF sender = "Ann B" THEN "Ann_B" ELSE sender

\* the file name create_action_file gives the task of event ev
TaskName(ev, day) ==
    CASE ev.w = "gmail"    -> <<"EMAIL", ev.id[1], "">>
      [] ev.w = "twitter"  -> <<"TWITTER", ev.id[1], "">>
      [] ev.w = "facebook" -> <<"FACEBOOK", ev.id[1], safe_name(ev.sender)>>
      [] ev.w = "linkedin" -> <<"LINKEDIN", safe_name(ev.sender), day>>

\* PROCESSED_FILE before the first _save_processed
NoLedger == [exists |-> FALSE, ids |-> {}]

\* the log records of __init__ around _load_processed
LoadLog(corrupt) == {"INFO"}

\* __init__ of a watcher: _setup_logging opens the day's log file,
\* GmailWatcher authenticates (and saves a new token), _load_processed
\* reads the ledger
start_watcher(w) ==
    /\ running = "none"
    /\ starts < MaxStarts
    /\ starts' = starts + 1
    /\ running' = w
    /\ actor' = "watcher"
    /\ \E readable \in BOOLEAN, tokenValid \in BOOLEAN :
          LET corrupt == ledgers[w].exists /\ ~readable
          IN  /\ (~ledgers[w].exists => readable)
              /\ (w # "gmail" => tokenValid)
              /\ memIds' = IF ~ledgers[w].exists \/ corrupt THEN {} ELSE ledgers[w].ids
              /\ foundCorrupt' = corrupt
              /\ loadLog' = LoadLog(corrupt)
              /\ touched' = touched \cup {"Logs"}
                               \cup (IF tokenValid THEN {} ELSE {"token"})
    /\ UNCHANGED <<ledgers, stage, today, destroyed>>
    /\ UNCHANGED notG

\* the process ends (KeyboardInterrupt, or it is killed)
stop_watcher ==
    /\ running # "none"
    /\ running' = "none"
    /\ memIds' = {}
    /\ actor' = "other"
    /\ UNCHANGED <<ledgers, stage, today, starts, touched, foundCorrupt,
                   loadLog, destroyed>>
    /\ UNCHANGED notG

\* check_for_updates: GmailWatcher saves a refreshed token, LinkedInWatcher
\* opens the browser on its session directory
poll_source ==
    /\ running # "none"
    /\ actor' = "watcher"
    /\ \E refreshed \in BOOLEAN :
          /\ (running \notin {"gmail", "linkedin"} => ~refreshed)
          /\ touched' = touched \cup
                (IF ~refreshed THEN {}
                 ELSE IF running = "gmail" THEN {"token"} ELSE {"session"})
    /\ UNCHANGED <<running, memIds, ledgers, stage, today, starts,
                   foundCorrupt, loadLog, destroyed>>
    /\ UNCHANGED notG

\* create_action_file for an event that check_for_updates returned:
\* filepath.write_text, processed_ids.add, _save_processed, logger.info
create_action_file(ev) ==
    /\ running = ev.w
    /\ ev.id \notin memIds
    /\ actor' = "watcher"
    /\ LET name == TaskName(ev, today)
           old  == {r \in stage[TaskArea] : r.name = name}
       IN  /\ stage' = [stage EXCEPT ![TaskArea] =
                          (@ \ old) \cup {[name |-> name, event |-> ev]}]
           /\ destroyed' = destroyed \cup {r.event : r \in {q \in old : q.event # ev}}
    /\ memIds' = memIds \cup {ev.id}
    /\ ledgers' = [ledgers EXCEPT ![ev.w] = [exists |-> TRUE, ids |-> memIds']]
    /\ touched' = touched \cup {TaskArea, "ledger", "Logs"}
    /\ UNCHANGED <<running, today, starts, foundCorrupt, loadLog>>
    /\ UNCHANGED notG

\* a human or the task loop moves a task on from Needs_Action/
take_task(r, d) ==
    /\ r \in stage["Needs_Action"]
    /\ d = "Done"
    /\ stage' = [stage EXCEPT !["Needs_Action"] = @ \ {r},
                              ![d] = {q \in @ : q.name # r.name} \cup {r}]
    /\ actor' = "other"
    /\ UNCHANGED <<running, memIds, ledgers, today, starts, touched,
                   foundCorrupt, loadLog, destroyed>>
    /\ UNCHANGED notG

\* midnight
next_day ==
    /\ today = "d1"
    /\ today' = "d2"
    /\ actor' = "other"
    /\ UNCHANGED <<running, memIds, ledgers, stage, starts, touched,
                   foundCorrupt, loadLog, destroyed>>
    /\ UNCHANGED notG

(***************************************************************************)
(* Watch mode: social_orchestrator.main with ApprovedHandler, and          *)
(* file_watcher.main with ApprovedFolderHandler.                           *)
(***************************************************************************)
OFiles == {"POST_1.md", "POST_2.md"}

\* on_created: `if key in self._seen: return`
AlreadySeen_never(f) == FALSE

AlreadySeen(f) == f \in oSeen

\* process_file(f, dry_run) on a post file that lies in Approved/ (for
\* file_watcher: the orchestrator run with --file in a subprocess).  The
\* post succeeds or not; after a success the rename into Done/ is tried, an
\* exception of the rename is logged and the result stays True.
process_file(f) ==
    /\ waiting' = waiting \ {f}
    /\ \E posted \in BOOLEAN, renamed \in BOOLEAN :
          IF oDry
            THEN /\ posted /\ renamed
                 /\ reported' = [reported EXCEPT ![f] = "dry_run"]
                 /\ UNCHANGED oLoc
          ELSE IF ~posted
            THEN /\ renamed
                 /\ reported' = [reported EXCEPT ![f] = "failure"]
                 /\ UNCHANGED oLoc
          ELSE /\ reported' = [reported EXCEPT ![f] = "success"]
               /\ oLoc' = IF renamed THEN [oLoc EXCEPT ![f] = "done"] ELSE oLoc

\* main() up to the list of the files already in Approved/; file_watcher
\* has no such list and starts its observer at once
start_watching(kind, dry) ==
    /\ opc = "stopped"
    /\ launches < MaxLaunches
    /\ launches' = launches + 1
    /\ kind = "file_watcher" => ~dry
    /\ oKind' = kind
    /\ oDry' = dry
    /\ opc' = IF kind = "orchestrator" THEN "scan" ELSE "watch"
    /\ existing' = IF kind = "orchestrator"
                     THEN {f \in OFiles : oLoc[f] = "approved"} ELSE {}
    /\ oEvents' = {}
    /\ oSeen' = {}
    /\ handled' = [f \in OFiles |-> 0]
    /\ UNCHANGED <<oLoc, waiting, reported>>
    /\ UNCHANGED notO

\* `for f in existing:` one turn; f.read_text raises out of main when the
\* file is gone
scan_existing ==
    /\ opc = "scan"
    /\ \E f \in existing :
          IF oLoc[f] = "approved"
            THEN /\ process_file(f)
                 /\ existing' = existing \ {f}
                 /\ UNCHANGED opc
            ELSE /\ opc' = "stopped"
                 /\ existing' = {}
                 /\ waiting' = {}
                 /\ UNCHANGED <<oLoc, reported>>
    /\ UNCHANGED <<oKind, oDry, oEvents, oSeen, launches, handled>>
    /\ UNCHANGED notO

\* observer.schedule(...); observer.start()
start_observer ==
    /\ opc = "scan"
    /\ existing = {}
    /\ opc' = "watch"
    /\ UNCHANGED <<oKind, oDry, existing, oEvents, oSeen, oLoc, launches,
                   handled, waiting, reported>>
    /\ UNCHANGED notO

\* ApprovedHandler.on_created / ApprovedFolderHandler.on_created
approved_on_created ==
    /\ opc = "watch"
    /\ \E f \in oEvents :
          /\ oEvents' = oEvents \ {f}
          /\ oSeen' = oSeen \cup {f}
          /\ IF ~AlreadySeen(f) /\ oLoc[f] = "approved"
               THEN /\ handled[f] < MaxDispatches
                    /\ handled' = [handled EXCEPT ![f] = @ + 1]
                    /\ process_file(f)
               ELSE UNCHANGED <<handled, oLoc, waiting, reported>>
    /\ UNCHANGED <<opc, oKind, oDry, existing, launches>>
    /\ UNCHANGED notO

\* Ctrl+C: observer.stop()
stop_watching ==
    /\ opc # "stopped"
    /\ opc' = "stopped"
    /\ existing' = {}
    /\ oEvents' = {}
    /\ waiting' = {}
    /\ UNCHANGED <<oKind, oDry, oSeen, oLoc, launches, handled, reported>>
    /\ UNCHANGED notO

\* the human moves f from Pending_Approval/ into Approved/; a started
\* observer gets an on_created event
approve_file(f) ==
    /\ oLoc[f] = "pending"
    /\ oLoc' = [oLoc EXCEPT ![f] = "approved"]
    /\ oEvents' = IF opc = "watch" THEN oEvents \cup {f} ELSE oEvents
    /\ waiting' = IF opc # "stopped" THEN waiting \cup {f} ELSE waiting
    /\ reported' = [reported EXCEPT ![f] = "none"]
    /\ UNCHANGED <<opc, oKind, oDry, existing, oSeen, launches, handled>>
    /\ UNCHANGED notO

\* the human takes f back from Approved/ (to approve it again later)
withdraw_file(f) ==
    /\ oLoc[f] = "approved"
    /\ oLoc' = [oLoc EXCEPT ![f] = "pending"]
    /\ waiting' = waiting \ {f}
    /\ UNCHANGED <<opc, oKind, oDry, existing, oEvents, oSeen, launches,
                   handled, reported>>
    /\ UNCHANGED notO

(***************************************************************************)
(* Initial state and specifications.                                       *)
(***************************************************************************)
WatcherInit ==
    /\ wpc = "idle"
    /\ items = <<>>
    /\ cur = 0
    /\ processed_ids = {}
    /\ ledgerFile = Missing
    /\ needs_action = {}
    /\ writes = [i \in Ids |-> 0]
    /\ written = {}
    /\ midCrashes = [i \in Ids |-> 0]
    /\ restarts = 0
    /\ refiltered = {}
    /\ checkOutcome = "none"
    /\ shown = {}
    /\ createFailed = NoFailure
    /\ partial = {}

ExecInit ==
    /\ loc = [f \in Files |-> "absent"]
    /\ content = [f \in Files |-> NoContent]
    /\ events = [e \in Execs |-> {}]
    /\ seen = [e \in Execs |-> {}]
    /\ ex = [e \in Execs |-> IdleExec]
    /\ poster = IdlePoster
    /\ humanApproved = {}
    /\ tries = [f \in Files |-> NoTries]
    /\ doneAfter = [f \in Files |-> "none"]
    /\ ungated = {}

RalphInit ==
    /\ rpc = "idle"
    /\ rdir = [t \in RTasks |-> "elsewhere"]
    /\ max_iterations = 0
    /\ iteration = 0
    /\ done_before = {}
    /\ needs_before = {}
    /\ rresult = "none"
    /\ invocations = 0
    /\ checks = 0
    /\ last = NoIteration

DoneInit ==
    /\ dApproved = [n \in DNames |-> 0]
    /\ dDone = {}
    /\ dClock = <<1, 1>>
    /\ dPlaced = 0
    /\ dMoved = {}
    /\ dSends = [v \in 1..MaxPlaced |-> 0]

LogInit ==
    /\ logFile = [a \in Actors |-> NoLog]
    /\ logged = [a \in Actors |-> <<>>]

CaptionInit ==
    /\ given = <<>>
    /\ draftKind = "none"
    /\ draftText = NoText
    /\ parsed = NoText

BothInit ==
    /\ bLoc = [f \in BFiles |-> "approved"]
    /\ fbPosts = [f \in BFiles |-> 0]
    /\ igPosts = [f \in BFiles |-> 0]
    /\ bResult = [f \in BFiles |-> "none"]
    /\ bRuns = 0
    /\ batch = {}
    /\ skipped = {}

LoginInit ==
    /\ lpc = "idle"
    /\ elapsed = 0
    /\ polls = 0
    /\ lresult = "none"
    /\ lcycles = 0

IngestInit ==
    /\ running = "none"
    /\ memIds = {}
    /\ ledgers = [w \in WatcherKinds |-> NoLedger]
    /\ stage = [d \in StageDirs |-> {}]
    /\ today = "d1"
    /\ starts = 0
    /\ touched = {}
    /\ actor = "other"
    /\ foundCorrupt = FALSE
    /\ loadLog = {}
    /\ destroyed = {}

WatchInit ==
    /\ opc = "stopped"
    /\ oKind = "orchestrator"
    /\ oDry = FALSE
    /\ existing = {}
    /\ oEvents = {}
    /\ oSeen = {}
    /\ oLoc = [f \in OFiles |-> "pending"]
    /\ launches = 0
    /\ handled = [f \in OFiles |-> 0]
    /\ waiting = {}
    /\ reported = [f \in OFiles |-> "none"]

Init ==
    /\ WatcherInit /\ ExecInit /\ RalphInit /\ DoneInit /\ LogInit /\ CaptionInit
    /\ BothInit
    /\ LoginInit
    /\ IngestInit
    /\ WatchInit

WatcherNext ==
    \/ check_for_updates
    \/ sleep_interval
    \/ fetch_message
    \/ write_task_file
    \/ mark_processed
    \/ keyboard_interrupt
    \/ restart_watcher

WatcherSpec == Init /\ [][WatcherNext]_vars

\* the steps of run() are taken as long as the process lives
WatcherFairSpec ==
    /\ Init /\ [][WatcherNext]_vars
    /\ WF_vars(check_for_updates) /\ WF_vars(sleep_interval)
    /\ WF_vars(fetch_message) /\ WF_vars(write_task_file)
    /\ WF_vars(mark_processed)

ExecNext ==
    \/ \E f \in Files, c \in PostContents : draft_post(f, c)
    \/ \E f \in Files : draft_email(f)
    \/ \E f \in Files : human_approve(f)
    \/ \E f \in Files : human_reject(f)
    \/ \E e \in Execs, f \in Files : on_created(e, f)
    \/ \E f \in Files, dir \in {"pending", "approved"} : main_one_shot(f, dir)
    \/ \E e \in Execs : attempt_post(e)
    \/ \E e \in Execs : finish_process_file(e)
    \/ \E f \in Files, dry \in BOOLEAN : poster_execute(f, dry)
    \/ poster_move
    \/ \E f \in Files, ref \in Refs : send_email(f, ref)
    \/ \E tool \in DirectTools : direct_post(tool)

ExecSpec == Init /\ [][ExecNext]_vars

RalphNext ==
    \/ \E t \in RTasks : new_task(t)
    \/ \E max \in 0..MaxIter : ralph_start(max)
    \/ ralph_iterate
    \/ ralph_exhausted

RalphSpec == Init /\ [][RalphNext]_vars

\* every call of run_claude returns (CLAUDE_TIMEOUT bounds it), and the loop
\* body and the code after the loop always run on
RalphFairSpec ==
    Init /\ [][RalphNext]_vars /\ WF_vars(ralph_iterate) /\ WF_vars(ralph_exhausted)

DoneNext ==
    \/ \E n \in DNames : place_approved(n)
    \/ tick
    \/ \E who \in Movers, n \in DNames : rename_to_done(who, n)

DoneSpec == Init /\ [][DoneNext]_vars

LogNext ==
    \E a \in Actors, action \in {"draft_email", "send_email"} : log_action(a, action)

LogSpec == Init /\ [][LogNext]_vars

CaptionNext ==
    \/ \E kind \in DraftKinds, c \in Captions : write_draft(kind, c)
    \/ parse_draft

CaptionSpec == Init /\ [][CaptionNext]_vars

BothNext ==
    \/ \E f \in BFiles : post_both(f)
    \/ start_batch
    \/ batch_next

BothSpec == Init /\ [][BothNext]_vars

LoginNext ==
    \/ linkedin_check
    \/ wait_for_login_poll
    \/ wait_for_login_timeout
    \/ linkedin_sleep

\* the waits of _wait_for_login and the sleep of run() come to an end
LoginFairSpec ==
    /\ Init /\ [][LoginNext]_vars
    /\ WF_vars(wait_for_login_poll) /\ WF_vars(wait_for_login_timeout)
    /\ WF_vars(linkedin_sleep)

IngestNext ==
    \/ \E w \in WatcherKinds : start_watcher(w)
    \/ stop_watcher
    \/ poll_source
    \/ \E ev \in SourceEvents : create_action_file(ev)
    \/ \E d \in StageDirs : \E r \in stage["Needs_Action"] : take_task(r, d)
    \/ next_day

IngestSpec == Init /\ [][IngestNext]_vars

WatchNext ==
    \/ \E kind \in {"orchestrator", "file_watcher"}, dry \in BOOLEAN :
          start_watching(kind, dry)
    \/ scan_existing
    \/ start_observer
    \/ approved_on_created
    \/ stop_watching
    \/ \E f \in OFiles : approve_file(f)
    \/ \E f \in OFiles : withdraw_file(f)

WatchSpec == Init /\ [][WatchNext]_vars

\* a running process works through its list, starts its observer and is
\* handed every event of the observer
WatchFairSpec ==
    /\ Init /\ [][WatchNext]_vars
    /\ WF_vars(scan_existing) /\ WF_vars(start_observer)
    /\ WF_vars(approved_on_created)

(***************************************************************************)
(* Claims.                                                                 *)
(***************************************************************************)

\* C1: however often the source returns the same id, and across restarts
\* that reload the ledger written by _save_processed, one task file is
\* created per source id: a write is repeated only for a write whose ledger
\* entry was lost in a crash before _save_processed, and an id in the ledger
\* has at least one write (exactly one when no crash intervened).
C1_OneTaskPerId ==
    \A id \in Ids :
        /\ writes[id] <= 1 + midCrashes[id]
        /\ id \in load_processed(ledgerFile) => writes[id] >= 1
        /\ (id \in load_processed(ledgerFile) /\ midCrashes[id] = 0) => writes[id] = 1

\* the source returned an already processed id again after a restart and the
\* id still has exactly one task file write
C1_Witness ==
    \E id \in Ids :
        /\ id \in refiltered
        /\ restarts >= 1
        /\ midCrashes[id] = 0
        /\ writes[id] = 1
        /\ wpc = "idle"

\* C2: an id is in the ledger (in memory or on disk) only after its task
\* file was written, in every state including those after a crash; a crash
\* between the write and the ledger save leaves the id out of the ledger.
C2_LedgerAfterFile ==
    /\ processed_ids \subseteq written
    /\ load_processed(ledgerFile) \subseteq written
    /\ \A id \in Ids : midCrashes[id] > 0 /\ writes[id] = midCrashes[id]
                          => id \notin load_processed(ledgerFile)

\* a crash hit between write and save, the event was processed again after
\* the restart and is now in the persisted ledger
C2_Witness ==
    \E id \in Ids :
        /\ midCrashes[id] = 1
        /\ writes[id] = 2
        /\ id \in load_processed(ledgerFile)

\* C3: a dispatch whose attempts all fail makes exactly MAX_RETRIES attempts,
\* never more and never fewer, before execute_post returns the exhausted
\* outcome (False); when the browser context launched every time, these are
\* exactly MAX_RETRIES invocations of the platform handler.
C3_ExactlyMaxRetries ==
    \A e \in Execs :
        /\ ex[e].attempt <= MAX_RETRIES
        /\ ex[e].calls + ex[e].launchFails <= MAX_RETRIES
        /\ ex[e].outcome = "exhausted" =>
              /\ ex[e].attempt = MAX_RETRIES
              /\ ex[e].calls + ex[e].launchFails = MAX_RETRIES
              /\ ~Returned(ex[e].outcome)

C3_Witness ==
    \E e \in Execs :
        /\ ex[e].pc = "returned"
        /\ ex[e].outcome = "exhausted"
        /\ ex[e].calls = MAX_RETRIES
        /\ ex[e].launchFails = 0

\* C4: a dispatch whose content the platform handler rejects with a
\* validation error (tweet longer than 280 characters, Instagram post
\* without image) calls the handler once and makes no further attempt.
C4_ValidationErrorOneAttempt ==
    \A e \in Execs :
        (ex[e].pc # "idle" /\ ~HandlerAccepts(content[ex[e].file]))
            => ex[e].calls <= 1

\* C5: the executor never parses, dispatches or moves a file that is in
\* Pending_Approval/: every dispatch in progress started on a file found in
\* Approved/.
C5_PendingUntouched ==
    \A e \in Execs : ex[e].pc # "idle" => ex[e].dir = "approved"

\* C6: a file is in Done/ only after the external action for it returned
\* success: never after a failed, exhausted, skipped or dry-run dispatch.
C6_DoneOnlyAfterSuccess ==
    \A f \in Files : loc[f] = "done" => doneAfter[f] = "success"

C6_Witness ==
    \E f \in Files :
        /\ loc[f] = "done"
        /\ doneAfter[f] = "success"
        /\ f \in humanApproved
        /\ \E e \in Execs : tries[f][e] = "moved"

C8_RenameIsMutex ==
    \A e1, e2 \in Execs :
        (/\ e1 # e2
         /\ ex[e1].pc # "idle" /\ ex[e2].pc # "idle"
         /\ ex[e1].file = ex[e2].file
         /\ ex[e1].via # "one_shot" /\ ex[e2].via # "one_shot")
            => ~(ex[e1].calls >= 1 /\ ex[e2].calls >= 1)

C10_ExhaustedLeavesFile ==
    [][\A e \in Execs :
          (ex'[e] # ex[e] /\ (ex[e].outcome = "exhausted" \/ ex'[e].outcome = "exhausted"))
              => (loc' = loc /\ content' = content)]_vars

C10_Witness ==
    \E e \in Execs :
        /\ ex[e].pc = "returned"
        /\ ex[e].outcome = "exhausted"
        /\ ex[e].dir = "approved"
        /\ loc[ex[e].file] = "approved"
        /\ content[ex[e].file] \in PostContents

\* C11: a dispatch of a file that an earlier dispatch of the same executor
\* left in Approved/ after exhausting its retries is not cut short: it starts
\* at attempt 1 with no attempt carried over, and it returns exhausted only
\* after MAX_RETRIES attempts of its own.
C11_FreshBudget ==
    \A e \in Execs :
        (ex[e].pc # "idle" /\ ex[e].dir = "approved" /\ tries[ex[e].file][e] = "left") =>
            /\ ex[e].pc = "attempt" =>
                  ex[e].attempt = ex[e].calls + ex[e].launchFails + 1
            /\ ex[e].outcome = "exhausted" =>
                  ex[e].calls + ex[e].launchFails = MAX_RETRIES

C11_Witness ==
    \E e \in Execs :
        /\ ex[e].pc = "returned"
        /\ ex[e].dir = "approved"
        /\ tries[ex[e].file][e] = "left"
        /\ ex[e].outcome = "exhausted"
        /\ ex[e].calls = MAX_RETRIES

C14_NegativeExitAborts ==
    /\ last.exit < 0 =>
          /\ rpc = "returned"
          /\ rresult = "False"
          /\ invocations = iteration
          /\ checks = invocations - 1
    /\ last.exit > 0 =>
          /\ checks = invocations
          /\ rresult = "False" => ~InRange(iteration, max_iterations)

C14_Witness ==
    /\ last.exit < 0
    /\ rpc = "returned"
    /\ invocations = 2
    /\ max_iterations = MaxIter
    /\ snapshot_dir("needs") # {}

\* C15: a run of ralph_loop always returns, after at most max_iterations
\* calls of the actor; when no rule matched in any iteration it returns
\* False, and the code after the loop leaves Needs_Action/ and Done/ as the
\* actor left them.
C15_TerminatesNoRollback ==
    /\ [](invocations <= max_iterations)
    /\ [](rpc = "returned" /\ last.exit >= 0 /\ last.rule = 0 => rresult = "False")
    /\ ((rpc = "loop") ~> (rpc = "returned"))
    /\ [][(rpc = "loop" /\ rpc' = "returned" /\ invocations' = invocations)
            => rdir' = rdir]_vars

C15_Witness ==
    /\ rpc = "returned"
    /\ rresult = "False"
    /\ last.exit >= 0
    /\ invocations = MaxIter
    /\ snapshot_dir("needs") # {}
    /\ snapshot_dir("done") \ done_before # {}

\* C16: every file whose rename into Done/ succeeded is still in Done/: no
\* later move replaced or removed it.
C16_DoneKeepsEveryFile ==
    \A v \in dMoved : \E d \in dDone : d.file = v

\* C17: every record _log_action wrote to a day's log is still in the file,
\* in the order of writing.
C17_LogAppendOnly ==
    \A a \in Actors :
        /\ Len(logged[a]) <= Len(logFile[a].entries)
        /\ \A i \in 1..Len(logged[a]) : logFile[a].entries[i] = logged[a][i]

\* C18: a caption written into a draft and parsed back by the executor's
\* parser comes back unchanged, or the parser fails.
C18_CaptionRoundTrip ==
    parsed # NoText => (parsed = given \/ parsed = ParseError)

\* C20: check_for_updates never raises: every call returns a list.
C20_CheckNeverRaises ==
    checkOutcome \in {"none", "returned"}

\* C19: send_email sends only for a file that is in Approved/ when it is
\* called: no call of send_email has sent a message on behalf of a file the
\* human had not moved into Approved/.
C19_SendNeedsApprovedFile ==
    ungated \cap {"send_email", "send_email_path"} = {}

\* C21 (as stated): the id of an event whose create_action_file failed is
\* in neither the in-memory nor the persisted ledger.
C21_FailedEventNotInLedger ==
    createFailed.at # "none" =>
        createFailed.id \notin processed_ids \cup load_processed(ledgerFile)

\* C21 (amended): when create_action_file fails before its ledger step
\* (fetching the message, rendering, writing the task file), the id is in
\* neither ledger, the for loop goes on with the remaining events of the
\* cycle, and the next poll that lists the id returns it again.
C21_EarlyFailureRetried ==
    /\ [](createFailed.at = "early" =>
             createFailed.id \notin processed_ids \cup load_processed(ledgerFile))
    /\ [][(createFailed' # createFailed /\ createFailed'.at = "early") =>
             /\ wpc' = "loop"
             /\ items' = IF wpc = "loop" THEN Tail(items) ELSE items]_vars
    /\ []((wpc = "loop" /\ checkOutcome = "returned"
               /\ createFailed.at = "early" /\ createFailed.id \in shown) =>
             createFailed.id \in Range(items))

\* an event failed early while another event of the same cycle was still to
\* come, that one got its task file, and the failed one is returned again
C21_Witness ==
    /\ createFailed.at = "early"
    /\ wpc = "loop"
    /\ createFailed.id \in shown
    /\ createFailed.id \in Range(items)
    /\ \E j \in processed_ids : j > createFailed.id

\* C22: a start of the watcher that finds a corrupt ledger file loads an
\* empty ledger and reaches the polling loop.
C22_CorruptLedgerLoadsEmpty ==
    [][(restarts' = restarts + 1 /\ ledgerFile' = Corrupt) =>
          (processed_ids' = {} /\ wpc' = "idle")]_vars

\* the watcher started on a corrupt ledger and polls: an id written before
\* is returned again
C22_Witness ==
    /\ ledgerFile = Corrupt
    /\ restarts >= 1
    /\ wpc = "loop"
    /\ processed_ids = {}
    /\ \E id \in written : id \in Range(items)

\* C25: task files and ledger files are written all-or-nothing: no file in
\* Needs_Action/ and no ledger file is ever cut short.
C25_WritesAllOrNothing ==
    /\ ledgerFile # Corrupt
    /\ partial = {}

\* C29: run() is never left by an exception of check_for_updates or
\* create_action_file: the failure is logged, the watcher goes on to sleep
\* and polls again, unless a KeyboardInterrupt (or the death of the
\* process) comes first.
C29_RunLoopsForever ==
    /\ [](wpc # "stopped")
    /\ [][(createFailed' # createFailed) => wpc' = "loop"]_vars
    /\ (wpc = "loop") ~> (wpc \in {"idle", "interrupted"})
    /\ (wpc = "idle") ~> (wpc \in {"loop", "interrupted"})

\* check_for_updates raised, then create_action_file raised, and the
\* watcher is polling again
C29_Witness ==
    /\ checkOutcome = "raised"
    /\ createFailed.at # "none"
    /\ wpc = "loop"
    /\ restarts = 0

\* C23: a dispatch of a file that parse_spec rejects has returned failure
\* without an attempt, without a handler call and without a screenshot, and
\* the end of process_file leaves every file where it is.
C23_ParseErrorNoAttempt ==
    /\ [](\A e \in Execs :
            (ex[e].pc # "idle" /\ parse_spec(content[ex[e].file]) = "error") =>
                /\ ex[e].pc = "returned"
                /\ ex[e].outcome = "parse_error"
                /\ ~Returned(ex[e].outcome)
                /\ ex[e].attempt = 0 /\ ex[e].calls = 0 /\ ex[e].launchFails = 0
                /\ ex[e].shots = {})
    /\ [][\A e \in Execs :
            (ex[e].outcome = "parse_error" /\ ex'[e].pc = "idle") =>
                (loc' = loc /\ tries' = tries /\ ungated' = ungated)]_vars

\* a one-shot run was given an approval request of draft_email, which is
\* no social post
C23_Witness ==
    \E e \in Execs :
        /\ ex[e].pc = "returned"
        /\ ex[e].outcome = "parse_error"
        /\ loc[ex[e].file] = ex[e].dir

\* C24: a dispatch that finds no session directory for the platform has
\* returned failure before the retry loop: no attempt, no handler call, no
\* screenshot, and a log line other than that of exhausted retries.
C24_NoSessionNoAttempt ==
    \A e \in Execs :
        (ex[e].pc # "idle" /\ ~ex[e].session
            /\ parse_spec(content[ex[e].file]) # "error") =>
            /\ ex[e].pc = "returned"
            /\ ex[e].outcome = "no_session"
            /\ ~Returned(ex[e].outcome)
            /\ ex[e].attempt = 0 /\ ex[e].calls = 0 /\ ex[e].launchFails = 0
            /\ ex[e].shots = {}
            /\ LogLine(ex[e].outcome) # LogLine("exhausted")

C24_Witness ==
    \E e \in Execs :
        /\ ex[e].outcome = "no_session"
        /\ ~ex[e].dry
        /\ ex[e].dir = "approved"
        /\ HandlerAccepts(content[ex[e].file])

\* C27 (as stated): at a success the number of handler invocations equals
\* the index of the successful attempt.
C27_CallsEqualSuccessIndex ==
    \A e \in Execs : ex[e].outcome = "success" => ex[e].calls = ex[e].attempt

\* C27 (amended): the first success ends the retry loop; the number of
\* attempts made equals the index of the successful attempt, at most
\* MAX_RETRIES, the handler was invoked in those attempts whose browser
\* launch succeeded, and attempts are numbered one after the other.
C27_SuccessEndsLoop ==
    /\ [](\A e \in Execs : ex[e].outcome = "success" =>
            /\ ex[e].pc = "returned"
            /\ ex[e].attempt = ex[e].calls + ex[e].launchFails
            /\ ex[e].attempt <= MAX_RETRIES
            /\ ex[e].calls >= 1)
    /\ [][\A e \in Execs :
            /\ ex[e].outcome = "success" => ex'[e] \in {ex[e], IdleExec}
            /\ (ex[e].pc = "attempt" /\ ex'[e].pc = "attempt") =>
                   ex'[e].attempt \in {ex[e].attempt, ex[e].attempt + 1}]_vars

\* the third attempt succeeded after a failed launch and a failed handler call
C27_Witness ==
    \E e \in Execs :
        /\ ex[e].outcome = "success"
        /\ ex[e].attempt = MAX_RETRIES
        /\ ex[e].launchFails = 1
        /\ ex[e].calls = 2

\* C26: a step that was completed is not executed again: a task's post is
\* published on Facebook at most once, and a run that published on
\* Facebook but not on Instagram does not end in the plain failure outcome.
C26_PartialNotRepeated ==
    \A f \in BFiles :
        /\ fbPosts[f] <= 1
        /\ (fbPosts[f] > igPosts[f]) => bResult[f] \notin {"False", "raised"}

\* the three completion rules, read off the state an iteration leaves
Rule1 == last.marker
Rule2 == (snapshot_dir("done") \ done_before) # {} /\ snapshot_dir("needs") = {}
Rule3 == needs_before # {} /\ snapshot_dir("needs") = {}
FirstRule == IF Rule1 THEN 1 ELSE IF Rule2 THEN 2 ELSE IF Rule3 THEN 3 ELSE 0

\* C28 (as stated): an iteration ends the loop with success if and only if
\* one of the three rules holds after its actor call, and the reason
\* reported is that of the first rule that holds.
C28_SuccessIffRule ==
    [][(invocations' = invocations + 1) =>
          /\ (rresult' = "True") <=> (Rule1' \/ Rule2' \/ Rule3')
          /\ last'.rule = FirstRule']_vars

\* C28 (amended): an iteration whose actor call returned an exit code >= 0
\* ends the loop with success if and only if one of the three rules holds
\* after the call, the reason being that of the first rule that holds; an
\* iteration whose actor call failed locally (exit code < 0) ends the loop
\* with failure whatever the directories look like.
C28_SuccessIffRuleAfterCall ==
    [][(invocations' = invocations + 1) =>
          IF last'.exit >= 0
            THEN /\ (rresult' = "True") <=> (Rule1' \/ Rule2' \/ Rule3')
                 /\ last'.rule = FirstRule'
                 /\ (rresult' # "True") => (rpc' = "loop" /\ rresult' = "none")
            ELSE rresult' = "False" /\ rpc' = "returned" /\ last'.rule = 0]_vars

\* the loop ended by rule 3 in its second iteration: no token, nothing new
\* in Done/, the queue emptied
C28_Witness ==
    /\ rpc = "returned"
    /\ rresult = "True"
    /\ last.rule = 3
    /\ ~Rule1 /\ ~Rule2 /\ Rule3
    /\ invocations = 2

\* C30: _wait_for_login waits at most LOGIN_WAIT_TIMEOUT seconds in at most
\* LOGIN_WAIT_TIMEOUT / poll_interval polls and comes to an end;
\* check_for_updates then returns (the scan's list after a login, [] else)
\* and the same process is back at the start of a poll cycle.
C30_LoginWaitBounded ==
    /\ [](elapsed <= LOGIN_WAIT_TIMEOUT)
    /\ [](polls <= LOGIN_WAIT_TIMEOUT \div poll_interval)
    /\ [](lpc = "returned" /\ polls > 0 => lresult \in {"scanned", "empty"})
    /\ (lpc = "waiting") ~> (lpc = "returned")
    /\ (lpc = "returned") ~> (lpc = "idle")

\* the login wait ran into its timeout after 40 polls and the watcher is
\* back at the start of the next cycle
C30_Witness ==
    /\ lpc = "idle"
    /\ lcycles = 1
    /\ elapsed = LOGIN_WAIT_TIMEOUT
    /\ polls = LOGIN_WAIT_TIMEOUT \div poll_interval
    /\ lresult = "empty"

C32_NoTaskOverwritten == destroyed = {}

\* C33: a watcher that found its ledger file unreadable and started from
\* an empty ledger has logged a warning.
C33_CorruptLedgerWarned == foundCorrupt => "WARNING" \in loadLog

\* C34: a --dry-run dispatch never enters the retry loop and never calls a
\* platform handler or the Graph API, and the step that ends it leaves
\* every task file where it is (nothing is moved to Done/).
C34_DryRunDoesNothing ==
    /\ [](\A e \in Execs : ex[e].dry => ex[e].calls = 0 /\ ex[e].attempt = 0)
    /\ [](poster.dry => poster.posts = 0)
    /\ [][/\ \A e \in Execs : (ex[e].dry /\ ex'[e] # ex[e]) =>
                                   (loc' = loc /\ ungated' = ungated)
          /\ (poster.dry /\ poster' # poster) =>
                (loc' = loc /\ ungated' = ungated)]_vars

\* a dry-run execute_post has returned True and its file lies in Approved/
C34_Witness ==
    \E e \in Execs :
        /\ ex[e].pc = "returned"
        /\ ex[e].dry
        /\ ex[e].outcome = "dry_run"
        /\ loc[ex[e].file] = "approved"

\* C35: a post file put into Approved/ while the orchestrator runs in watch
\* mode (also during its startup scan) is dispatched in the end.
C35_PlacedEventuallyDispatched ==
    \A f \in OFiles : (f \in waiting) ~> (f \notin waiting)

C37_SuccessMeansMoved ==
    \A f \in OFiles : reported[f] = "success" => oLoc[f] # "approved"

\* C38: a failure while one file of a batch is posted, an HTTP or network
\* error included, keeps no other file of the batch from being processed.
C38_BatchIsolated == skipped = {}

\* C39: a draft that social_draft_post or twitter_draft_post has written
\* is not rejected by parse_spec once it is approved.
C39_DraftsAccepted == draftText # NoText => parsed # ParseError

\* C40: an approval file authorises one send at most: send_email sends no
\* second mail on a file it has sent a mail on.
C40_OneSendPerApproval == \A v \in 1..MaxPlaced : dSends[v] <= 1
====
